---------------------------- MODULE Spec2Model ----------------------------
(***************************************************************************)
(* Model of the JSON API deserializer of kudu-deserializer-jsonapi          *)
(* (src/src/deserializer.js).                                              *)
(*                                                                         *)
(* The exported function takes (app, obj, type, requireId), validates the  *)
(* top-level document and hands every resource of "data" to the inner      *)
(* recursive function deserializeResourceObject.                           *)
(*                                                                         *)
(* JavaScript values are modelled as tagged records of one shape, so that  *)
(* a property of an instance can hold a string, undefined, another         *)
(* instance or an array of instances:                                      *)
(*   tag    "string" | "undefined" | "null" | "object" | "array"           *)
(*   val    the characters of a string; the model name of an instance      *)
(*   fields the own properties of an object (property name -> value)       *)
(*   items  the elements of an array                                       *)
(***************************************************************************)
EXTENDS Integers, Sequences, FiniteSets, TLC

VARIABLES
    obj,        \* argument "obj": the raw input (JSON text or decoded value)
    type,       \* argument "type": the expected type (null when omitted)
    requireId,  \* argument "requireId"
    pc,         \* position of the call: "start", "resolve", "done", "thrown"
    data,       \* "let data = obj.data" once validation has passed
    idx,        \* index of the next element data.map will visit (1-based)
    acc,        \* the elements data.map has produced so far
    result,     \* the returned value, once pc = "done"
    error       \* the thrown error, once pc = "thrown"

vars == <<obj, type, requireId, pc, data, idx, acc, result, error>>

----------------------------------------------------------------------------
(* Bounds of the model.                                                    *)

\* longest "included" array carried by a resource object
MaxIncluded == 2
\* longest top-level "data" array
MaxData == 2

----------------------------------------------------------------------------
(* JavaScript values.                                                      *)

NoFields == <<>>

Str(s) == [tag |-> "string", val |-> s, fields |-> NoFields, items |-> <<>>]
Undefined == [tag |-> "undefined", val |-> "", fields |-> NoFields, items |-> <<>>]
Null == [tag |-> "null", val |-> "", fields |-> NoFields, items |-> <<>>]
Arr(s) == [tag |-> "array", val |-> "", fields |-> NoFields, items |-> s]
Obj(model, f) == [tag |-> "object", val |-> model, fields |-> f, items |-> <<>>]

\* typeof v
TypeOf(v) ==
    CASE v.tag = "string" -> "string"
      [] v.tag = "undefined" -> "undefined"
      [] OTHER -> "object"

\* o.hasOwnProperty(k) for an instance
HasProp(o, k) == k \in DOMAIN o.fields

\* o[k] for an instance: undefined when o has no such property
GetProp(o, k) == IF HasProp(o, k) THEN o.fields[k] ELSE Undefined

\* o[k] = v
SetProp(o, k, v) ==
    [o EXCEPT !.fields =
        [q \in (DOMAIN o.fields) \cup {k} |-> IF q = k THEN v ELSE o.fields[q]]]

----------------------------------------------------------------------------
(* Errors.  kind names the throw site after the taxonomy of the            *)
(* specification; status is err.status (0 when the code sets none);        *)
(* errors is err.errors (hasErrors tells whether the code set it).         *)

NoErrors == [isArray |-> FALSE, items |-> <<>>]

Err(kind, status) ==
    [kind |-> kind, status |-> status, hasErrors |-> FALSE, errors |-> NoErrors]

NoError == Err("none", 0)

\* outcome of a call: a returned value or a thrown error
Return(v) == [ok |-> TRUE, val |-> v, err |-> NoError]
Throw(e) == [ok |-> FALSE, val |-> Undefined, err |-> e]

----------------------------------------------------------------------------
(* The application's model registry (app.models) and the model             *)
(* constructor, both owned by Kudu.                                        *)

\* the models the test suite registers: kudu.createModel('test' | 'child' | 'child2');
\* a model's plural name is its singular name followed by "s"
Models ==
    { [singular |-> Str("test"), plural |-> Str("tests")],
      [singular |-> Str("child"), plural |-> Str("childs")],
      [singular |-> Str("child2"), plural |-> Str("child2s")] }

NoModel == [found |-> FALSE, singular |-> Undefined, plural |-> Undefined]

\* app.models.get(name): the model registered under the singular name
ModelsGet(name) ==
    IF \E m \in Models : m.singular = Str(name)
    THEN LET m == CHOOSE m \in Models : m.singular = Str(name)
         IN [found |-> TRUE, singular |-> m.singular, plural |-> m.plural]
    ELSE NoModel

RECURSIVE CopyEntries(_, _, _)
CopyEntries(o, entries, k) ==
    IF k > Len(entries) THEN o
    ELSE CopyEntries(SetProp(o, entries[k].key, entries[k].value), entries, k + 1)

\* new Model(attributes): an instance of the model holding a copy of every
\* attribute; no attributes (undefined) gives an instance without properties
Construct(Model, attributes) ==
    IF attributes.present
    THEN CopyEntries(Obj(Model.singular.val, NoFields), attributes.entries, 1)
    ELSE Obj(Model.singular.val, NoFields)

----------------------------------------------------------------------------
(* deserializeResourceObject( data, expectedType )                         *)

\* identifier.some(( identifier ) => identifier.type === type && identifier.id === id)
SomeIdentifier(ids, item) ==
    \E k \in 1..Len(ids) : ids[k].type = item.type /\ ids[k].id = item.id

\* the value of "compound" for one relationship: an array of the included
\* items matching any identifier (to-many), the first included item matching
\* the identifier (to-one), or undefined
Compound(identifier, included) ==
    CASE identifier.shape = "many" ->
            [kind |-> "array",
             items |-> SelectSeq(included, LAMBDA item : SomeIdentifier(identifier.ids, item))]
      [] identifier.shape = "one" ->
            LET matches == SelectSeq(included,
                    LAMBDA item : item.type = identifier.ids[1].type
                                  /\ item.id = identifier.ids[1].id)
            IN IF Len(matches) > 0
               THEN [kind |-> "object", items |-> <<matches[1]>>]
               ELSE [kind |-> "undefined", items |-> <<>>]
      [] OTHER -> [kind |-> "undefined", items |-> <<>>]

RECURSIVE deserializeResourceObject(_, _, _)
RECURSIVE MapCompound(_, _, _, _)
RECURSIVE ForEachRelationship(_, _, _, _)

\* compound.map(( item ) => deserializeResourceObject(item, item.type)),
\* from element k on, with the elements produced so far in done
MapCompound(items, k, done, rid) ==
    IF k > Len(items) THEN Return(Arr(done))
    ELSE LET r == deserializeResourceObject(items[k], items[k].type, rid)
         IN IF r.ok THEN MapCompound(items, k + 1, Append(done, r.val), rid)
            ELSE r

\* Object.keys(data.relationships).forEach(...), from key number k on
ForEachRelationship(res, instance, k, rid) ==
    IF k > Len(res.relationships.entries) THEN Return(instance)
    ELSE LET key == res.relationships.entries[k].key
             identifier == res.relationships.entries[k].data
             compound == Compound(identifier, res.included.items)
         IN CASE compound.kind = "array" ->
                    LET r == MapCompound(compound.items, 1, <<>>, rid)
                    IN IF r.ok
                       THEN ForEachRelationship(res, SetProp(instance, key, r.val), k + 1, rid)
                       ELSE r
              [] compound.kind = "object" ->
                    LET r == deserializeResourceObject(
                                 compound.items[1], compound.items[1].type, rid)
                    IN IF r.ok
                       THEN ForEachRelationship(res, SetProp(instance, key, r.val), k + 1, rid)
                       ELSE r
              [] OTHER -> ForEachRelationship(res, instance, k + 1, rid)

\* the checks made before the instance is constructed; NoError when all pass
CheckResource(res, expectedType, rid) ==
    IF TypeOf(res.type) # "string" THEN Err("MissingType", 0)
    ELSE IF rid /\ TypeOf(res.id) # "string" THEN Err("MissingId", 0)
    ELSE LET Model == ModelsGet(res.type.val)
         IN IF ~Model.found THEN Err("UnknownType", 409)
            ELSE IF expectedType # Model.plural /\ expectedType # Model.singular
                 THEN Err("TypeMismatch", 409)
                 ELSE NoError

\* whether the relationships of a resource are walked at all
HasCompound(res) ==
    res.relationships.present /\ res.included.present /\ Len(res.included.items) > 0

\* mutant: type and id are set only where the instance has no such property
\* yet, as if they were assigned before the attributes and relationships
AssignTypeAndIdFirst(instance, res) ==
    LET a == IF HasProp(instance, "type") THEN instance
             ELSE SetProp(instance, "type", res.type)
    IN IF HasProp(a, "id") THEN a ELSE SetProp(a, "id", res.id)

\* instance.type = data.type; instance.id = data.id
AssignTypeAndId(instance, res) ==
    SetProp(SetProp(instance, "type", res.type), "id", res.id)

deserializeResourceObject(res, expectedType, rid) ==
    LET e == CheckResource(res, expectedType, rid)
    IN IF e # NoError THEN Throw(e)
       ELSE LET instance == Construct(ModelsGet(res.type.val), res.attributes)
                walked == IF HasCompound(res)
                          THEN ForEachRelationship(res, instance, 1, rid)
                          ELSE Return(instance)
            IN IF walked.ok
               THEN Return(AssignTypeAndId(walked.val, res))
               ELSE walked

----------------------------------------------------------------------------
(* Documents.  A resource object is a record                               *)
(*   type, id       JavaScript values (a string, or undefined when absent) *)
(*   attributes     present?, and its entries in key order                 *)
(*   relationships  present?, and its entries in key order; an entry's     *)
(*                  data is a single identifier ("one"), an array of       *)
(*                  identifiers ("many") or null/absent ("none")           *)
(*   included       present?, and its items: the member the code reads as  *)
(*                  data.included                                          *)
(* A decoded document is a record                                          *)
(*   kind           "object", or "null" / "number" for a non-object        *)
(*   errors, data, included   the top-level members, each with a flag      *)
(*                  telling whether the document has it                    *)
(* The raw input is the decoded document, or a JSON text: a text is        *)
(* described by whether it is well-formed and by the value it denotes.     *)

Seqs(S, n) == UNION { [1..k -> S] : k \in 0..n }

NoAttributes == [present |-> FALSE, entries |-> <<>>]
Attributes(entries) == [present |-> TRUE, entries |-> entries]
NoRelationships == [present |-> FALSE, entries |-> <<>>]
Relationships(entries) == [present |-> TRUE, entries |-> entries]
NoIncluded == [present |-> FALSE, items |-> <<>>]
Included(items) == [present |-> TRUE, items |-> items]

Ident(t, i) == [type |-> Str(t), id |-> Str(i)]
ToOne(ident) == [shape |-> "one", ids |-> <<ident>>]
ToMany(idents) == [shape |-> "many", ids |-> idents]
NoLinkage == [shape |-> "none", ids |-> <<>>]
Rel(key, linkage) == [key |-> key, data |-> linkage]
Attr(key, s) == [key |-> key, value |-> Str(s)]

Res(t, i, attrs, rels, incl) ==
    [type |-> t, id |-> i, attributes |-> attrs, relationships |-> rels, included |-> incl]

IdentChild == Ident("child", "2")
IdentChild2 == Ident("child2", "3")
IdentFail == Ident("fail", "3")

\* resources that may sit in an "included" array
Child2Plain ==
    Res(Str("child2"), Str("3"), Attributes(<<Attr("name", "nested")>>),
        NoRelationships, NoIncluded)
ChildDeep ==
    Res(Str("child"), Str("2"), Attributes(<<Attr("name", "test2")>>),
        Relationships(<<Rel("deep", ToOne(IdentChild2))>>), NoIncluded)
ChildDeepOwn ==
    Res(Str("child"), Str("2"), NoAttributes,
        Relationships(<<Rel("deep", ToOne(IdentChild2))>>), Included(<<Child2Plain>>))
Child2Back ==
    Res(Str("child2"), Str("3"), NoAttributes,
        Relationships(<<Rel("back", ToOne(IdentChild))>>), NoIncluded)
Unregistered ==
    Res(Str("fail"), Str("3"), NoAttributes, NoRelationships, NoIncluded)

ItemPool == {ChildDeep, ChildDeepOwn, Child2Plain, Child2Back, Unregistered}
TopPool == {ChildDeep, Child2Plain, Child2Back}

IncludedChoices == {NoIncluded} \cup { Included(s) : s \in Seqs(ItemPool, MaxIncluded) }
TopIncludedChoices == {NoIncluded} \cup { Included(s) : s \in Seqs(TopPool, MaxIncluded) }

RelationshipChoices ==
    { NoRelationships,
      Relationships(<<>>),
      Relationships(<<Rel("child", NoLinkage)>>),
      Relationships(<<Rel("child", ToOne(IdentChild))>>),
      Relationships(<<Rel("child", ToOne(IdentFail))>>),
      Relationships(<<Rel("type", ToOne(IdentChild))>>),
      Relationships(<<Rel("children", ToMany(<<IdentChild, IdentChild2>>))>>),
      Relationships(<<Rel("child", ToOne(IdentChild2)),
                      Rel("children", ToMany(<<IdentChild>>))>>) }

AttributeChoices ==
    { NoAttributes,
      Attributes(<<Attr("prop", "x")>>),
      Attributes(<<Attr("type", "x"), Attr("id", "y"), Attr("child", "z")>>) }

TypeChoices == {Str("test"), Str("child"), Str("fail"), Undefined}
IdChoices == {Str("1"), Undefined}
\* the "type" argument: omitted (null), or a string
ExpectedChoices == {Null, Str("test"), Str("tests"), Str("child"), Str("fail")}

NoData == [shape |-> "none", items |-> <<>>]
One(res) == [shape |-> "one", items |-> <<res>>]
Many(items) == [shape |-> "many", items |-> items]
NullData == [shape |-> "null", items |-> <<>>]

ErrorsMember(items) == [isArray |-> TRUE, items |-> items]
NotAnArray == [isArray |-> FALSE, items |-> <<>>]

Doc(d, incl) ==
    [kind |-> "object", hasErrors |-> FALSE, errors |-> NoErrors,
     hasData |-> d.shape # "none", data |-> d, included |-> incl]
ErrorsDoc(errs, d) ==
    [kind |-> "object", hasErrors |-> TRUE, errors |-> errs,
     hasData |-> d.shape # "none", data |-> d, included |-> NoIncluded]
NonObject(kind) ==
    [kind |-> kind, hasErrors |-> FALSE, errors |-> NoErrors,
     hasData |-> FALSE, data |-> NoData, included |-> NoIncluded]

\* primary resources that exercise the checks on type and id
CheckedResources ==
    { Res(t, i, a, r, incl) :
        t \in TypeChoices, i \in IdChoices, a \in AttributeChoices,
        r \in {NoRelationships, Relationships(<<Rel("type", ToOne(IdentChild))>>)},
        incl \in {NoIncluded, Included(<<ChildDeep>>)} }

\* primary resources that exercise the relationships
CompoundResources ==
    { Res(Str("test"), Str("1"), a, r, incl) :
        a \in {NoAttributes, Attributes(<<Attr("name", "x"), Attr("child", "y")>>)},
        r \in RelationshipChoices, incl \in IncludedChoices }

\* elements of a top-level "data" array
ArrayPool ==
    { Res(Str("test"), Str("1"), Attributes(<<Attr("prop", "x")>>), NoRelationships, NoIncluded),
      Res(Str("child"), Str("2"), NoAttributes, NoRelationships, NoIncluded),
      Res(Str("test"), Str("3"), NoAttributes,
          Relationships(<<Rel("child", ToOne(IdentChild))>>), Included(<<ChildDeep>>)),
      Res(Str("fail"), Str("3"), NoAttributes, NoRelationships, NoIncluded),
      Res(Str("test"), Undefined, NoAttributes, NoRelationships, NoIncluded),
      Res(Undefined, Str("1"), NoAttributes, NoRelationships, NoIncluded) }

ErrorsChoices ==
    { NotAnArray, ErrorsMember(<<>>), ErrorsMember(<<"e1">>), ErrorsMember(<<"e1", "e2">>) }

SimpleData ==
    { NoData, NullData, One(Child2Plain), One(Unregistered), Many(<<>>), Many(<<Child2Plain>>) }

ValidatorDocs ==
    { NonObject("null"), NonObject("number") }
    \cup { ErrorsDoc(e, d) : e \in ErrorsChoices, d \in SimpleData }
    \cup { Doc(d, NoIncluded) : d \in SimpleData }

Value(doc) == [isString |-> FALSE, wellFormed |-> TRUE, value |-> doc]
Text(doc) == [isString |-> TRUE, wellFormed |-> TRUE, value |-> doc]
BadText == [isString |-> TRUE, wellFormed |-> FALSE, value |-> NonObject("null")]

\* the calls the model makes: <<obj, type, requireId>>
Calls ==
    ({BadText} \cup { Value(d) : d \in ValidatorDocs } \cup { Text(d) : d \in ValidatorDocs })
        \X ExpectedChoices \X BOOLEAN
    \cup ({ Value(Doc(One(r), NoIncluded)) : r \in CheckedResources }
          \cup { Text(Doc(One(r), NoIncluded)) : r \in CheckedResources })
        \X ExpectedChoices \X BOOLEAN
    \cup { Value(Doc(One(r), incl)) : r \in CompoundResources, incl \in TopIncludedChoices }
        \X {Str("test")} \X BOOLEAN
    \cup { Value(Doc(Many(s), NoIncluded)) : s \in Seqs(ArrayPool, MaxData) }
        \X ExpectedChoices \X BOOLEAN

----------------------------------------------------------------------------
(* The exported function.                                                  *)

\* JSON.parse(text): the value the text denotes, or a SyntaxError
JSONParse(text) ==
    IF text.wellFormed THEN Return(text.value) ELSE Throw(Err("SyntaxError", 0))

\* lines 20-22: a string argument is parsed, any other is taken as it is
Decode(raw) ==
    IF raw.isString
    THEN LET r == JSONParse(raw) IN [ok |-> r.ok, doc |-> raw.value, err |-> r.err]
    ELSE [ok |-> TRUE, doc |-> raw.value, err |-> NoError]

\* mutant: the error is thrown without the "errors" array
UpstreamErrorsBare(errs) ==
    [kind |-> "UpstreamErrors", status |-> 0, hasErrors |-> FALSE, errors |-> NoErrors]

\* the error thrown for a valid "errors" member: it carries obj.errors
UpstreamErrors(errs) ==
    [kind |-> "UpstreamErrors", status |-> 0, hasErrors |-> TRUE, errors |-> errs]

\* mutant: the coexistence of "errors" and "data" is checked before the shape
\* of "errors"
CheckDocumentDataFirst(doc) ==
    IF doc.kind # "object" THEN Err("InvalidInput", 0)
    ELSE IF doc.hasErrors
         THEN IF doc.hasData THEN Err("ErrorsWithData", 0)
              ELSE IF ~doc.errors.isArray \/ Len(doc.errors.items) = 0
                   THEN Err("MalformedErrors", 0)
                   ELSE UpstreamErrors(doc.errors)
         ELSE IF ~doc.hasData THEN Err("MissingData", 0)
              ELSE NoError

\* lines 24-63: the checks on the decoded document; NoError when all pass
CheckDocument(doc) ==
    IF doc.kind # "object" THEN Err("InvalidInput", 0)
    ELSE IF doc.hasErrors
         THEN IF ~doc.errors.isArray \/ Len(doc.errors.items) = 0
              THEN Err("MalformedErrors", 0)
              ELSE IF doc.hasData THEN Err("ErrorsWithData", 0)
                   ELSE UpstreamErrors(doc.errors)
         ELSE IF ~doc.hasData THEN Err("MissingData", 0)
              ELSE NoError

Init ==
    /\ \E c \in Calls : obj = c[1] /\ type = c[2] /\ requireId = c[3]
    /\ pc = "start"
    /\ data = NoData
    /\ idx = 1
    /\ acc = <<>>
    /\ result = Undefined
    /\ error = NoError

\* lines 18-71: decode and validate the document, then take obj.data
Validate ==
    /\ pc = "start"
    /\ LET d == Decode(obj)
           e == IF d.ok THEN CheckDocument(d.doc) ELSE d.err
       IN IF e # NoError
          THEN /\ pc' = "thrown"
               /\ error' = e
               /\ UNCHANGED data
          ELSE /\ pc' = "resolve"
               /\ data' = d.doc.data
               /\ UNCHANGED error
    /\ UNCHANGED <<obj, type, requireId, idx, acc, result>>

\* mutant: the new element is put in front of the elements produced so far
MapItemPrepend ==
    /\ pc = "resolve"
    /\ data.shape = "many"
    /\ idx <= Len(data.items)
    /\ LET r == deserializeResourceObject(data.items[idx], type, requireId)
       IN IF r.ok
          THEN /\ acc' = <<r.val>> \o acc
               /\ idx' = idx + 1
               /\ UNCHANGED <<pc, error>>
          ELSE /\ pc' = "thrown"
               /\ error' = r.err
               /\ UNCHANGED <<acc, idx>>
    /\ UNCHANGED <<obj, type, requireId, data, result>>

\* line 74: one step of data.map, on element idx
MapItem ==
    /\ pc = "resolve"
    /\ data.shape = "many"
    /\ idx <= Len(data.items)
    /\ LET r == deserializeResourceObject(data.items[idx], type, requireId)
       IN IF r.ok
          THEN /\ acc' = Append(acc, r.val)
               /\ idx' = idx + 1
               /\ UNCHANGED <<pc, error>>
          ELSE /\ pc' = "thrown"
               /\ error' = r.err
               /\ UNCHANGED <<acc, idx>>
    /\ UNCHANGED <<obj, type, requireId, data, result>>

\* line 74: data.map has visited every element; its array is returned
MapReturn ==
    /\ pc = "resolve"
    /\ data.shape = "many"
    /\ idx > Len(data.items)
    /\ pc' = "done"
    /\ result' = Arr(acc)
    /\ UNCHANGED <<obj, type, requireId, data, idx, acc, error>>

\* line 77: data is not an array.  Reading data.type of null is a TypeError.
ResolveSingle ==
    /\ pc = "resolve"
    /\ data.shape # "many"
    /\ LET r == IF data.shape = "null" THEN Throw(Err("TypeError", 0))
                ELSE deserializeResourceObject(data.items[1], type, requireId)
       IN IF r.ok
          THEN /\ pc' = "done"
               /\ result' = r.val
               /\ UNCHANGED error
          ELSE /\ pc' = "thrown"
               /\ error' = r.err
               /\ UNCHANGED result
    /\ UNCHANGED <<obj, type, requireId, data, idx, acc>>

Next == Validate \/ MapItem \/ MapReturn \/ ResolveSingle

Spec == Init /\ [][Next]_vars

----------------------------------------------------------------------------
(* Vocabulary of the properties.                                           *)

\* the decoded document the call works on
Document == obj.value

\* the call has returned or thrown
Finished == pc \in {"done", "thrown"}

\* the document has a single resource as "data"
SingleResource ==
    Document.kind = "object" /\ ~Document.hasErrors /\ Document.data.shape = "one"

\* that resource
Primary == Document.data.items[1]

\* the "errors" member is a non-empty array
ValidErrors(doc) == doc.errors.isArray /\ Len(doc.errors.items) > 0

----------------------------------------------------------------------------
(* Document validation.                                                    *)

\* C6 (as stated): a document that has both an "errors" member and a "data"
\* member always fails with ErrorsWithData, whatever the shape of "errors".
C6_ErrorsWithDataAlways ==
    (pc # "start" /\ Document.hasErrors /\ Document.hasData)
        => (pc = "thrown" /\ error.kind = "ErrorsWithData")

\* C6 (amended): a document that has both members fails with ErrorsWithData
\* when "errors" is a non-empty array, whatever "data" is, and with
\* MalformedErrors when "errors" is not an array or is empty: the shape of
\* "errors" is checked before its coexistence with "data".
C6_ErrorsWithData ==
    (pc # "start" /\ Document.hasErrors /\ Document.hasData)
        => /\ pc = "thrown"
           /\ error.kind = IF ValidErrors(Document) THEN "ErrorsWithData"
                           ELSE "MalformedErrors"

C6_Witness ==
    /\ pc = "thrown"
    /\ Document.hasErrors /\ Document.hasData
    /\ Len(Document.errors.items) = 2
    /\ Document.data.shape = "one"
    /\ error.kind = "ErrorsWithData"

\* C7: a document whose "errors" member is a non-empty array and that has no
\* "data" member fails with UpstreamErrors, the error carrying the original
\* "errors" array; and no document that has an "errors" member yields a
\* result.
C7_UpstreamErrors ==
    /\ (pc # "start" /\ Document.hasErrors /\ ValidErrors(Document) /\ ~Document.hasData)
            => /\ pc = "thrown"
               /\ error.kind = "UpstreamErrors"
               /\ error.hasErrors
               /\ error.errors = Document.errors
    /\ Document.hasErrors => (pc \in {"start", "thrown"} /\ result = Undefined)

C7_Witness ==
    /\ pc = "thrown"
    /\ error.kind = "UpstreamErrors"
    /\ error.errors.items = <<"e1", "e2">>
    /\ obj.isString

----------------------------------------------------------------------------
(* Resolution of the resources of "data".                                  *)

\* the resolution of one resource under the arguments of the call
Resolution(res) == deserializeResourceObject(res, type, requireId)

\* the included items the relationships of a resource match
MatchedItems(res) ==
    IF HasCompound(res)
    THEN UNION { { c.items[j] : j \in 1..Len(c.items) } :
                 c \in { Compound(res.relationships.entries[k].data, res.included.items) :
                         k \in 1..Len(res.relationships.entries) } }
    ELSE {}

\* the errors thrown by resolving those items
NestedFailures(res) ==
    { deserializeResourceObject(item, item.type, requireId).err :
        item \in { m \in MatchedItems(res) :
                     ~deserializeResourceObject(m, m.type, requireId).ok } }

\* the relationship keys the walk assigns on the instance
AssignedKeys(res) ==
    IF HasCompound(res)
    THEN { res.relationships.entries[k].key :
             k \in { j \in 1..Len(res.relationships.entries) :
                       Compound(res.relationships.entries[j].data,
                                res.included.items).kind # "undefined" } }
    ELSE {}

AttributeKeys(res) ==
    { res.attributes.entries[k].key : k \in 1..Len(res.attributes.entries) }

\* the precondition of C1: a single resource with a registered string type,
\* a string id, and an expected type naming its model
C1_Pre ==
    /\ SingleResource
    /\ TypeOf(Primary.type) = "string"
    /\ TypeOf(Primary.id) = "string"
    /\ ModelsGet(Primary.type.val).found
    /\ type \in {ModelsGet(Primary.type.val).singular, ModelsGet(Primary.type.val).plural}

\* C1 (as stated): for every such document the call returns an instance
\* whose type and id are those of the resource.
C1_AlwaysReturns ==
    (Finished /\ C1_Pre)
        => /\ pc = "done"
           /\ GetProp(result, "type") = Primary.type
           /\ GetProp(result, "id") = Primary.id

\* C1 (amended): for every such document, unless resolving an included
\* resource matched by one of its relationships fails (that failure is then
\* thrown), the call returns one instance of the model, built from the
\* attributes of the resource (none if absent), whose type and id are those
\* of the resource even when an attribute or a relationship is named "type"
\* or "id"; its other properties are the attributes and the relationships
\* the walk assigned.
C1_TypeAndIdWin ==
    (Finished /\ C1_Pre)
        => IF NestedFailures(Primary) # {}
           THEN pc = "thrown" /\ error \in NestedFailures(Primary)
           ELSE /\ pc = "done"
                /\ result.tag = "object"
                /\ result.val = Primary.type.val
                /\ GetProp(result, "type") = Primary.type
                /\ GetProp(result, "id") = Primary.id
                /\ \A k \in 1..Len(Primary.attributes.entries) :
                     LET a == Primary.attributes.entries[k]
                     IN a.key \notin ({"type", "id"} \cup AssignedKeys(Primary))
                            => GetProp(result, a.key) = a.value
                /\ DOMAIN result.fields =
                     {"type", "id"} \cup AttributeKeys(Primary) \cup AssignedKeys(Primary)

C1_Witness ==
    /\ pc = "done"
    /\ C1_Pre
    /\ "type" \in AttributeKeys(Primary)
    /\ "id" \in AttributeKeys(Primary)
    /\ "type" \in AssignedKeys(Primary)
    /\ GetProp(result, "type") = Str("test")
    /\ GetProp(result, "child") = Str("z")

\* the document has an array as "data"
ArrayData ==
    Document.kind = "object" /\ ~Document.hasErrors /\ Document.data.shape = "many"

\* C9: when "data" is an array of N resources that all resolve, the result
\* is an array of N instances, the i-th being the resolution of the i-th
\* resource; when an element fails the call throws that failure and returns
\* nothing.
C9_ArrayInOrder ==
    (Finished /\ ArrayData)
        => LET items == Document.data.items
               failing == { k \in 1..Len(items) : ~Resolution(items[k]).ok }
           IN IF failing = {}
              THEN /\ pc = "done"
                   /\ result.tag = "array"
                   /\ Len(result.items) = Len(items)
                   /\ \A k \in 1..Len(items) : result.items[k] = Resolution(items[k]).val
              ELSE /\ pc = "thrown"
                   /\ result = Undefined
                   /\ \E k \in failing : error = Resolution(items[k]).err

C9_Witness ==
    /\ pc = "done"
    /\ ArrayData
    /\ Len(result.items) = 2
    /\ GetProp(result.items[1], "id") = Str("3")
    /\ GetProp(result.items[2], "id") = Str("1")

----------------------------------------------------------------------------
(* Compound documents: the top-level "included" member.                    *)

\* the top-level "included" array of the document (empty when absent)
TopIncluded == Document.included.items

\* v is an instance resolved from the included item
InstanceOf(v, item) ==
    /\ v.tag = "object"
    /\ GetProp(v, "type") = item.type
    /\ GetProp(v, "id") = item.id

\* the relationship entries of a resource whose key is not "type" or "id"
RelEntries(res) ==
    { res.relationships.entries[k] :
        k \in { j \in 1..Len(res.relationships.entries) :
                  res.relationships.entries[j].key \notin {"type", "id"} } }

\* the ids of a sequence of identifiers, as an array of strings
IdsOf(ids) == Arr([k \in 1..Len(ids) |-> ids[k].id])

\* C2 (as stated): a relationship of the primary resource whose
\* identifier(s) match entries of the top-level "included" holds instances on
\* the returned instance: the one resolved from the first match (to-one), or
\* those resolved from every match, in the order of "included" (to-many).
C2_IncludedResolved ==
    (pc = "done" /\ SingleResource)
        => \A e \in RelEntries(Primary) :
             LET c == Compound(e.data, TopIncluded)
                 v == GetProp(result, e.key)
             IN /\ c.kind = "object" => InstanceOf(v, c.items[1])
                /\ (c.kind = "array" /\ Len(c.items) > 0)
                      => /\ v.tag = "array"
                         /\ Len(v.items) = Len(c.items)
                         /\ \A j \in 1..Len(c.items) : InstanceOf(v.items[j], c.items[j])

\* C3 (as stated): a relationship whose identifier(s) have no matching
\* included entry holds the raw id string (to-one) or the array of id
\* strings (to-many) on the returned instance.  The case is taken with no
\* match in the top-level "included" nor in an "included" member of the
\* resource itself.
C3_RawIdWhenNotIncluded ==
    (pc = "done" /\ SingleResource)
        => \A e \in RelEntries(Primary) :
             LET v == GetProp(result, e.key)
             IN (/\ Len(Compound(e.data, TopIncluded).items) = 0
                 /\ Len(Compound(e.data, Primary.included.items).items) = 0)
                    => /\ e.data.shape = "one" => v = e.data.ids[1].id
                       /\ e.data.shape = "many" => v = IdsOf(e.data.ids)

\* C4 (as stated): when a top-level included entry matched by a relationship
\* of the primary resource has itself a to-one relationship matching
\* another entry of the same top-level "included", the instance of the first
\* holds the instance of the second: a two-level-deep graph.
C4_NestedResolved ==
    (pc = "done" /\ SingleResource)
        => \A e \in RelEntries(Primary) :
             LET c == Compound(e.data, TopIncluded)
                 v == GetProp(result, e.key)
             IN \A j \in 1..Len(c.items) :
                  \A e2 \in RelEntries(c.items[j]) :
                    LET c2 == Compound(e2.data, TopIncluded)
                        child == IF c.kind = "array" /\ v.tag = "array" /\ j <= Len(v.items)
                                 THEN v.items[j] ELSE v
                    IN c2.kind = "object"
                          => /\ InstanceOf(child, c.items[j])
                             /\ InstanceOf(GetProp(child, e2.key), c2.items[1])

----------------------------------------------------------------------------
(* The checks on a resource.                                               *)

\* every resource of "data" has a registered string type and a string id
AllRegistered ==
    /\ Document.kind = "object" /\ ~Document.hasErrors
    /\ Document.data.shape \in {"one", "many"}
    /\ \A k \in 1..Len(Document.data.items) :
         /\ TypeOf(Document.data.items[k].type) = "string"
         /\ TypeOf(Document.data.items[k].id) = "string"
         /\ ModelsGet(Document.data.items[k].type.val).found

\* C5 (as stated): when the caller omits the expected type, resources of
\* registered types resolve and the call never fails with TypeMismatch.
C5_OmittedTypeAcceptsAny ==
    (Finished /\ type = Null /\ AllRegistered)
        => ~(pc = "thrown" /\ error.kind = "TypeMismatch")

\* the failure C8 prescribes for a resource, "none" when it is to resolve
C8_Expected(res) ==
    IF TypeOf(res.type) # "string" THEN Err("MissingType", 0)
    ELSE IF requireId /\ TypeOf(res.id) # "string" THEN Err("MissingId", 0)
    ELSE IF ~ModelsGet(res.type.val).found THEN Err("UnknownType", 409)
    ELSE IF /\ type # Null
            /\ type # ModelsGet(res.type.val).singular
            /\ type # ModelsGet(res.type.val).plural
         THEN Err("TypeMismatch", 409)
         ELSE NoError

\* C8 (as stated): the checks are made in the order MissingType, MissingId
\* (when an id is required), UnknownType (409), TypeMismatch (409, only for
\* a supplied expected type), and the first that fails decides the failure;
\* a resource that passes them all resolves.  The case is taken for a
\* resource whose relationships are not walked.
C8_CheckOrder ==
    (Finished /\ SingleResource /\ ~HasCompound(Primary))
        => IF C8_Expected(Primary) = NoError
           THEN pc = "done"
           ELSE pc = "thrown" /\ error = C8_Expected(Primary)

----------------------------------------------------------------------------
(* Termination.                                                            *)

\* a relationship of res matches the item
RelatesTo(res, item) ==
    /\ res.relationships.present
    /\ \E k \in 1..Len(res.relationships.entries) :
         LET d == res.relationships.entries[k].data
         IN d.shape # "none" /\ SomeIdentifier(d.ids, item)

\* the resource relates to an item a of the array, a to an item b of the
\* array, and b back to a
CyclicReference(res, included) ==
    \E i \in 1..Len(included), j \in 1..Len(included) :
        /\ RelatesTo(res, included[i])
        /\ RelatesTo(included[i], included[j])
        /\ RelatesTo(included[j], included[i])

\* C10 (as stated, its cyclic half): a call on a document with a cyclic
\* relationship reference between included resources recurses without bound,
\* so it never returns nor throws.  The case is taken with the cycle both in
\* the top-level "included" and in the "included" member of the resource.
C10_CycleNeverEnds ==
    (SingleResource /\ CyclicReference(Primary, TopIncluded)
                    /\ CyclicReference(Primary, Primary.included.items))
        => ~Finished

=============================================================================
